---- MODULE Spec2Model ----
(***************************************************************************)
(* Identity & Session Control Core of Zero-Trust-Website:                  *)
(*   backend/auth.rs               AuthDB, generate_jwt, verify_jwt        *)
(*   backend/session_management.rs SessionStore, sha256                    *)
(*   backend/rate_limiter.rs       RateLimiter                             *)
(*   backend/access_control.rs     AccessControl                           *)
(* Strings are sequences of one-character strings, so that format!,        *)
(* split('.'), the hand-written sha256 and base64 act on them as in the    *)
(* source.  Time is the wall clock in whole seconds.                       *)
(***************************************************************************)
EXTENDS Integers, Sequences, FiniteSets, TLC

VARIABLES
    now,        \* SystemTime::now(), seconds since UNIX_EPOCH
    users,      \* AuthDB.users: username -> User
    authRes,    \* outcome of the last AuthDB call, with the token of an Ok
    jwt,        \* a bearer token in a client's hands, with what generate_jwt put in it
    jwtRes,     \* outcome of the last verify_jwt call
    wrongRun,   \* history: consecutive wrong-password authenticate calls per user
    maxedOut,   \* history: users on which MAX_FAILED_ATTEMPTS consecutive wrong calls were made
    freshRun,   \* history: authenticate calls since the registration, while all were wrong
    sessions,   \* SessionStore.sessions: token -> (user, expiry, ip)
    issued,     \* history: what each create_session call was given and returned
    revoked,    \* history: tokens revoked and not returned by create_session since
    everRevoked,\* history: tokens revoked at some time
    sessRes,    \* outcome of the last SessionStore call
    clients,    \* RateLimiter.clients: identifier -> (count, last_request, is_blocked)
    rlRes,      \* outcome of the last allow_request call
    rlHist,     \* history per identifier: call indices and block instant
    roles,      \* AccessControl.roles: role name -> Role
    permRes,    \* the last has_permission call and its answer
    rcMutex,    \* RateLimiter.clients mutex: the worker holding it, or 0
    rcPc,       \* where each worker stands in allow_request
    rcLocal,    \* the count each worker loaded for *count += 1
    rcIncr,     \* history: increments of the count that were stored
    rcTrues,    \* history: allow_request calls that returned true
    auMutex,    \* AuthDB.users mutex: the worker holding it, or 0
    auPc,       \* where each worker stands in authenticate_user
    auCall,     \* the arguments of each worker's call, and whether the lock flag
                \* was set when it started
    auLocal,    \* the failed_attempts each worker loaded for += 1
    auVerifs,   \* history: wrong-password calls that reached verify_encoded since
                \* the last success
    auIncr,     \* history: increments of failed_attempts stored since the last success
    auLate,     \* history: a call that started with the lock flag set returned Ok
    lkMutex,    \* the mutex of each table: the worker holding it, 0 when free
    lkPc,       \* where each worker is in the operation it runs
    lkOp,       \* the operation each worker runs
    lkHeld      \* how many of its lock() calls each worker has made

vars == <<now, users, authRes, wrongRun, maxedOut, freshRun, jwt, jwtRes,
          sessions, issued, revoked, everRevoked, sessRes,
          clients, rlRes, rlHist, roles, permRes,
          rcMutex, rcPc, rcLocal, rcIncr, rcTrues,
          auMutex, auPc, auCall, auLocal, auVerifs, auIncr, auLate,
          lkMutex, lkPc, lkOp, lkHeld>>

authVars == <<users, authRes, wrongRun, maxedOut, freshRun>>
jwtVars  == <<jwt, jwtRes>>
sessVars == <<sessions, issued, revoked, everRevoked, sessRes>>
rlVars   == <<clients, rlRes, rlHist>>
accVars  == <<roles, permRes>>
rcVars   == <<rcMutex, rcPc, rcLocal, rcIncr, rcTrues>>
auVars   == <<auMutex, auPc, auCall, auLocal, auVerifs, auIncr, auLate>>
\* what the operations of one component alone leave untouched
lkVars   == <<lkMutex, lkPc, lkOp, lkHeld>>
extVars  == <<accVars, rcVars, auVars, lkVars>>

None == <<>>

(***************************************************************************)
(* Characters and bytes                                                    *)
(***************************************************************************)

\* The printable ASCII characters, code 32 first (code 96 is spelled out).
Printable ==
    << " ", "!", "\"", "#", "$", "%", "&", "'", "(", ")", "*", "+", ",", "-", ".", "/",
       "0", "1", "2", "3", "4", "5", "6", "7", "8", "9", ":", ";", "<", "=", ">", "?",
       "@", "A", "B", "C", "D", "E", "F", "G", "H", "I", "J", "K", "L", "M", "N", "O",
       "P", "Q", "R", "S", "T", "U", "V", "W", "X", "Y", "Z", "[", "\\", "]", "^", "_",
       "BACKTICK", "a", "b", "c", "d", "e", "f", "g", "h", "i", "j", "k", "l", "m", "n", "o",
       "p", "q", "r", "s", "t", "u", "v", "w", "x", "y", "z", "{", "|", "}", "~" >>

Chars == {Printable[i] : i \in 1..Len(Printable)}

\* str.as_bytes() on one ASCII character
OrdTable == [c \in Chars |-> 31 + CHOOSE i \in 1..Len(Printable) : Printable[i] = c]

as_bytes(s) == [i \in 1..Len(s) |-> OrdTable[s[i]]]

\* String::from_utf8 on ASCII bytes
from_bytes(b) == [i \in 1..Len(b) |-> Printable[b[i] - 31]]

Digits == <<"0", "1", "2", "3", "4", "5", "6", "7", "8", "9">>

\* format!("{}", n) for an unsigned integer
RECURSIVE ToDecimal(_)
ToDecimal(n) ==
    IF n < 10 THEN <<Digits[n + 1]>>
    ELSE ToDecimal(n \div 10) \o <<Digits[(n % 10) + 1]>>

HexDigits == <<"0", "1", "2", "3", "4", "5", "6", "7", "8", "9", "a", "b", "c", "d", "e", "f">>

\* format!("{:x}", b) for a byte: lower-case hex, no padding
ToHex(b) ==
    IF b < 16 THEN <<HexDigits[b + 1]>>
    ELSE <<HexDigits[(b \div 16) + 1], HexDigits[(b % 16) + 1]>>

\* s.split(DOT).collect(): the pieces between the dots (always at least one piece)
SplitDot(s) ==
    LET dots     == {i \in 1..Len(s) : s[i] = "."}
        n        == Cardinality(dots)
        dot(k)   == CHOOSE i \in dots : Cardinality({j \in dots : j < i}) = k - 1
        first(k) == IF k = 1 THEN 1 ELSE dot(k - 1) + 1
        last(k)  == IF k = n + 1 THEN Len(s) ELSE dot(k) - 1
    IN [k \in 1..(n + 1) |-> SubSeq(s, first(k), last(k))]

RECURSIVE Concat(_)
Concat(ss) == IF ss = <<>> THEN <<>> ELSE Head(ss) \o Concat(Tail(ss))

(***************************************************************************)
(* base64 (standard alphabet, padded) and the keyed MAC                    *)
(***************************************************************************)

B64Alphabet ==
    << "A", "B", "C", "D", "E", "F", "G", "H", "I", "J", "K", "L", "M", "N", "O", "P",
       "Q", "R", "S", "T", "U", "V", "W", "X", "Y", "Z", "a", "b", "c", "d", "e", "f",
       "g", "h", "i", "j", "k", "l", "m", "n", "o", "p", "q", "r", "s", "t", "u", "v",
       "w", "x", "y", "z", "0", "1", "2", "3", "4", "5", "6", "7", "8", "9", "+", "/" >>

B64Chars == {B64Alphabet[i] : i \in 1..Len(B64Alphabet)}

B64Index == [c \in B64Chars |-> (CHOOSE i \in 1..Len(B64Alphabet) : B64Alphabet[i] = c) - 1]

\* base64::encode on a byte string: three bytes give four characters, the last
\* group padded with "="
encode(b) ==
    LET n       == Len(b)
        byte(i) == IF i <= n THEN b[i] ELSE 0
        char(j) ==
            LET g  == (j - 1) \div 4
                b1 == byte((3 * g) + 1)
                b2 == byte((3 * g) + 2)
                b3 == byte((3 * g) + 3)
            IN CASE (j - 1) % 4 = 0 -> B64Alphabet[(b1 \div 4) + 1]
                 [] (j - 1) % 4 = 1 -> B64Alphabet[((b1 % 4) * 16) + (b2 \div 16) + 1]
                 [] (j - 1) % 4 = 2 ->
                        IF (3 * g) + 2 > n THEN "="
                        ELSE B64Alphabet[((b2 % 16) * 4) + (b3 \div 64) + 1]
                 [] OTHER ->
                        IF (3 * g) + 3 > n THEN "="
                        ELSE B64Alphabet[(b3 % 64) + 1]
    IN [j \in 1..(4 * ((n + 2) \div 3)) |-> char(j)]

\* Err(DecodeError): no byte string holds a negative byte
DecodeErr == <<-1>>

\* base64::decode: the bytes, or DecodeErr for text that is no padded base64
decode(s) ==
    LET n      == Len(s)
        pad    == IF n >= 1 /\ s[n] = "="
                  THEN (IF n >= 2 /\ s[n - 1] = "=" THEN 2 ELSE 1)
                  ELSE 0
        idx(j) == B64Index[s[j]]
        byte(i) ==
            LET g == (i - 1) \div 3
            IN CASE (i - 1) % 3 = 0 -> (idx((4 * g) + 1) * 4) + (idx((4 * g) + 2) \div 16)
                 [] (i - 1) % 3 = 1 ->
                        ((idx((4 * g) + 2) % 16) * 16) + (idx((4 * g) + 3) \div 4)
                 [] OTHER -> ((idx((4 * g) + 3) % 4) * 64) + idx((4 * g) + 4)
    IN IF n % 4 # 0 THEN DecodeErr
       ELSE IF \E j \in 1..(n - pad) : s[j] \notin B64Chars THEN DecodeErr
       ELSE IF pad = 2 /\ idx(n - 2) % 16 # 0 THEN DecodeErr
       ELSE IF pad = 1 /\ idx(n - 1) % 4 # 0 THEN DecodeErr
       ELSE [i \in 1..(((n \div 4) * 3) - pad) |-> byte(i)]

\* Hmac::<Sha256>::new_from_slice(key) . update(msg) . finalize(): the hmac crate's
\* MAC as an ideal keyed function, one tag per (key, message) and no two alike.
HmacSha256(key, msg) == key \o <<0>> \o msg

(***************************************************************************)
(* backend/rate_limiter.rs                                                 *)
(***************************************************************************)

MAX_REQUESTS_PER_MINUTE == 100
BLOCK_DURATION == 300
BURST_THRESHOLD == 50
\* Duration::new(60, 0) in allow_request
WINDOW == 60
\* the loop of main: for _ in 0..105
MAIN_REQUESTS == 105

\* identifiers: the IP of main, and a user name
Identifiers == {"192.168.1.1", "alice"}

\* last_request.elapsed().unwrap_or(default): Err when the clock is behind
Elapsed(last, t, default) == IF t >= last THEN t - last ELSE default

\* allow_request whose block lasts one window instead of BLOCK_DURATION
allow_request_short_block(tbl, identifier, t) ==
    LET entry   == IF identifier \in DOMAIN tbl THEN tbl[identifier] ELSE <<0, t, FALSE>>
        count   == entry[1]
        last    == entry[2]
        blocked == entry[3]
        tbl0    == [k \in DOMAIN tbl \cup {identifier} |->
                        IF k = identifier THEN entry ELSE tbl[k]]
    IN IF blocked /\ Elapsed(last, t, 0) < WINDOW THEN
           [tbl |-> tbl0, ok |-> FALSE]
       ELSE
           LET reset  == Elapsed(last, t, WINDOW) > WINDOW
               count1 == (IF reset THEN 0 ELSE count) + 1
               last1  == IF reset THEN t ELSE last
           IN IF count1 > MAX_REQUESTS_PER_MINUTE THEN
                  [tbl |-> [tbl0 EXCEPT ![identifier] = <<count1, t, TRUE>>], ok |-> FALSE]
              ELSE IF count1 > BURST_THRESHOLD THEN
                  [tbl |-> [tbl0 EXCEPT ![identifier] = <<count1, last1, blocked>>],
                   ok |-> FALSE]
              ELSE
                  [tbl |-> [tbl0 EXCEPT ![identifier] = <<count1, last1, blocked>>],
                   ok |-> TRUE]

\* allow_request that blocks the identifier as soon as the burst threshold is passed
allow_request_burst_blocks(tbl, identifier, t) ==
    LET entry   == IF identifier \in DOMAIN tbl THEN tbl[identifier] ELSE <<0, t, FALSE>>
        count   == entry[1]
        last    == entry[2]
        blocked == entry[3]
        tbl0    == [k \in DOMAIN tbl \cup {identifier} |->
                        IF k = identifier THEN entry ELSE tbl[k]]
    IN IF blocked /\ Elapsed(last, t, 0) < BLOCK_DURATION THEN
           [tbl |-> tbl0, ok |-> FALSE]
       ELSE
           LET reset  == Elapsed(last, t, WINDOW) > WINDOW
               count1 == (IF reset THEN 0 ELSE count) + 1
           IN IF count1 > BURST_THRESHOLD THEN
                  [tbl |-> [tbl0 EXCEPT ![identifier] = <<count1, t, TRUE>>], ok |-> FALSE]
              ELSE
                  [tbl |-> [tbl0 EXCEPT ![identifier] =
                                <<count1, IF reset THEN t ELSE last, blocked>>],
                   ok |-> TRUE]

\* allow_request that never starts a new window
allow_request_no_reset(tbl, identifier, t) ==
    LET entry   == IF identifier \in DOMAIN tbl THEN tbl[identifier] ELSE <<0, t, FALSE>>
        count   == entry[1]
        last    == entry[2]
        blocked == entry[3]
        tbl0    == [k \in DOMAIN tbl \cup {identifier} |->
                        IF k = identifier THEN entry ELSE tbl[k]]
    IN IF blocked /\ Elapsed(last, t, 0) < BLOCK_DURATION THEN
           [tbl |-> tbl0, ok |-> FALSE]
       ELSE
           LET count1 == count + 1
           IN IF count1 > MAX_REQUESTS_PER_MINUTE THEN
                  [tbl |-> [tbl0 EXCEPT ![identifier] = <<count1, t, TRUE>>], ok |-> FALSE]
              ELSE IF count1 > BURST_THRESHOLD THEN
                  [tbl |-> [tbl0 EXCEPT ![identifier] = <<count1, last, blocked>>],
                   ok |-> FALSE]
              ELSE
                  [tbl |-> [tbl0 EXCEPT ![identifier] = <<count1, last, blocked>>],
                   ok |-> TRUE]

\* allow_request that measures elapsed time on the clock as it stands, not at the
\* instant of the call
allow_request_wall_clock(tbl, identifier, t) ==
    LET entry   == IF identifier \in DOMAIN tbl THEN tbl[identifier] ELSE <<0, t, FALSE>>
        count   == entry[1]
        last    == entry[2]
        blocked == entry[3]
        tbl0    == [k \in DOMAIN tbl \cup {identifier} |->
                        IF k = identifier THEN entry ELSE tbl[k]]
    IN IF blocked /\ Elapsed(last, now, 0) < BLOCK_DURATION THEN
           [tbl |-> tbl0, ok |-> FALSE]
       ELSE
           LET reset  == Elapsed(last, now, WINDOW) > WINDOW
               count1 == (IF reset THEN 0 ELSE count) + 1
               last1  == IF reset THEN t ELSE last
           IN IF count1 > MAX_REQUESTS_PER_MINUTE THEN
                  [tbl |-> [tbl0 EXCEPT ![identifier] = <<count1, t, TRUE>>], ok |-> FALSE]
              ELSE IF count1 > BURST_THRESHOLD THEN
                  [tbl |-> [tbl0 EXCEPT ![identifier] = <<count1, last1, blocked>>],
                   ok |-> FALSE]
              ELSE
                  [tbl |-> [tbl0 EXCEPT ![identifier] = <<count1, last1, blocked>>],
                   ok |-> TRUE]

\* allow_request that denies the request over the maximum without blocking
allow_request_no_flag(tbl, identifier, t) ==
    LET entry   == IF identifier \in DOMAIN tbl THEN tbl[identifier] ELSE <<0, t, FALSE>>
        count   == entry[1]
        last    == entry[2]
        blocked == entry[3]
        tbl0    == [k \in DOMAIN tbl \cup {identifier} |->
                        IF k = identifier THEN entry ELSE tbl[k]]
    IN IF blocked /\ Elapsed(last, t, 0) < BLOCK_DURATION THEN
           [tbl |-> tbl0, ok |-> FALSE]
       ELSE
           LET reset  == Elapsed(last, t, WINDOW) > WINDOW
               count1 == (IF reset THEN 0 ELSE count) + 1
               last1  == IF reset THEN t ELSE last
           IN IF count1 > BURST_THRESHOLD THEN
                  [tbl |-> [tbl0 EXCEPT ![identifier] = <<count1, last1, blocked>>],
                   ok |-> FALSE]
              ELSE
                  [tbl |-> [tbl0 EXCEPT ![identifier] = <<count1, last1, blocked>>],
                   ok |-> TRUE]

\* allow_request without the burst threshold
allow_request_no_burst(tbl, identifier, t) ==
    LET entry   == IF identifier \in DOMAIN tbl THEN tbl[identifier] ELSE <<0, t, FALSE>>
        count   == entry[1]
        last    == entry[2]
        blocked == entry[3]
        tbl0    == [k \in DOMAIN tbl \cup {identifier} |->
                        IF k = identifier THEN entry ELSE tbl[k]]
    IN IF blocked /\ Elapsed(last, t, 0) < BLOCK_DURATION THEN
           [tbl |-> tbl0, ok |-> FALSE]
       ELSE
           LET reset  == Elapsed(last, t, WINDOW) > WINDOW
               count1 == (IF reset THEN 0 ELSE count) + 1
               last1  == IF reset THEN t ELSE last
           IN IF count1 > MAX_REQUESTS_PER_MINUTE THEN
                  [tbl |-> [tbl0 EXCEPT ![identifier] = <<count1, t, TRUE>>], ok |-> FALSE]
              ELSE
                  [tbl |-> [tbl0 EXCEPT ![identifier] = <<count1, last1, blocked>>],
                   ok |-> TRUE]

\* allow_request that restarts the block at every call it denies during the block
allow_request_block_extends(tbl, identifier, t) ==
    LET entry   == IF identifier \in DOMAIN tbl THEN tbl[identifier] ELSE <<0, t, FALSE>>
        count   == entry[1]
        last    == entry[2]
        blocked == entry[3]
        tbl0    == [k \in DOMAIN tbl \cup {identifier} |->
                        IF k = identifier THEN entry ELSE tbl[k]]
    IN IF blocked /\ Elapsed(last, t, 0) < BLOCK_DURATION THEN
           [tbl |-> [tbl0 EXCEPT ![identifier] = <<count, t, TRUE>>], ok |-> FALSE]
       ELSE
           LET reset  == Elapsed(last, t, WINDOW) > WINDOW
               count1 == (IF reset THEN 0 ELSE count) + 1
               last1  == IF reset THEN t ELSE last
           IN IF count1 > MAX_REQUESTS_PER_MINUTE THEN
                  [tbl |-> [tbl0 EXCEPT ![identifier] = <<count1, t, TRUE>>], ok |-> FALSE]
              ELSE IF count1 > BURST_THRESHOLD THEN
                  [tbl |-> [tbl0 EXCEPT ![identifier] = <<count1, last1, blocked>>],
                   ok |-> FALSE]
              ELSE
                  [tbl |-> [tbl0 EXCEPT ![identifier] = <<count1, last1, blocked>>],
                   ok |-> TRUE]

\* allow_request that keeps one entry for all identifiers
allow_request_shared_entry(tbl, identifier, t) ==
    LET entry   == IF identifier \in DOMAIN tbl THEN tbl[identifier] ELSE <<0, t, FALSE>>
        count   == entry[1]
        last    == entry[2]
        blocked == entry[3]
        keys    == DOMAIN tbl \cup {identifier}
    IN IF blocked /\ Elapsed(last, t, 0) < BLOCK_DURATION THEN
           [tbl |-> [k \in keys |-> entry], ok |-> FALSE]
       ELSE
           LET reset  == Elapsed(last, t, WINDOW) > WINDOW
               count1 == (IF reset THEN 0 ELSE count) + 1
               last1  == IF reset THEN t ELSE last
           IN IF count1 > MAX_REQUESTS_PER_MINUTE THEN
                  [tbl |-> [k \in keys |-> <<count1, t, TRUE>>], ok |-> FALSE]
              ELSE IF count1 > BURST_THRESHOLD THEN
                  [tbl |-> [k \in keys |-> <<count1, last1, blocked>>], ok |-> FALSE]
              ELSE
                  [tbl |-> [k \in keys |-> <<count1, last1, blocked>>], ok |-> TRUE]

\* RateLimiter::allow_request: the table after the call and the answer.
\* An entry is (count, last_request, is_blocked).
allow_request(tbl, identifier, t) ==
    LET \* clients.entry(identifier).or_insert((0, SystemTime::now(), false))
        entry   == IF identifier \in DOMAIN tbl THEN tbl[identifier] ELSE <<0, t, FALSE>>
        count   == entry[1]
        last    == entry[2]
        blocked == entry[3]
        tbl0    == [k \in DOMAIN tbl \cup {identifier} |->
                        IF k = identifier THEN entry ELSE tbl[k]]
    IN IF blocked /\ Elapsed(last, t, 0) < BLOCK_DURATION THEN
           [tbl |-> tbl0, ok |-> FALSE]
       ELSE
           LET reset  == Elapsed(last, t, WINDOW) > WINDOW
               count1 == (IF reset THEN 0 ELSE count) + 1
               last1  == IF reset THEN t ELSE last
           IN IF count1 > MAX_REQUESTS_PER_MINUTE THEN
                  [tbl |-> [tbl0 EXCEPT ![identifier] = <<count1, t, TRUE>>], ok |-> FALSE]
              ELSE IF count1 > BURST_THRESHOLD THEN
                  [tbl |-> [tbl0 EXCEPT ![identifier] = <<count1, last1, blocked>>],
                   ok |-> FALSE]
              ELSE
                  [tbl |-> [tbl0 EXCEPT ![identifier] = <<count1, last1, blocked>>],
                   ok |-> TRUE]

\* the clock readings at which the limiter is called: the start, the end of the
\* first window and the second after, and the seconds around the end of a block
\* that began at either
RLInstants ==
    {0, WINDOW, WINDOW + 1, BLOCK_DURATION - 1, BLOCK_DURATION,
     WINDOW + BLOCK_DURATION - 1, WINDOW + BLOCK_DURATION}

\* calls made on an identifier other than the IP of main
MaxOtherCalls == 2

\* history of the calls on one identifier, kept beside the table:
\*   total  calls made (counted for the identifiers with a budget)
\*   first  instant of the first call
\*   n      index of the last call while every call so far fell within WINDOW of
\*          the first and no more than MAIN_REQUESTS were made, else 0
\*   b      instant at which allow_request set is_blocked
\*   p      instant of the first call made at or after b + BLOCK_DURATION
\*   pn     index of the last call within WINDOW of p, up to BURST_THRESHOLD, else 0
HistAfter(h, identifier, r, t) ==
    LET first == IF h.first < 0 THEN t ELSE h.first
        n     == IF (h.first < 0 \/ h.n > 0) /\ t <= first + WINDOW /\ h.n < MAIN_REQUESTS
                 THEN h.n + 1 ELSE 0
        was   == identifier \in DOMAIN clients /\ clients[identifier][3]
        b     == IF r.tbl[identifier][3] /\ ~was THEN t ELSE h.b
        p     == IF h.p < 0 /\ h.b >= 0 /\ t >= h.b + BLOCK_DURATION THEN t ELSE h.p
        pn    == IF p >= 0 /\ t <= p + WINDOW /\ (h.p < 0 \/ h.pn > 0)
                    /\ h.pn < BURST_THRESHOLD
                 THEN h.pn + 1 ELSE 0
    IN [total |-> IF identifier = "192.168.1.1" THEN 0 ELSE h.total + 1,
        first |-> first, n |-> n, b |-> b, p |-> p, pn |-> pn]

AllowRequest(identifier) ==
    LET r == allow_request(clients, identifier, now)
        h == HistAfter(rlHist[identifier], identifier, r, now)
    IN /\ rlHist[identifier].total < MaxOtherCalls
       /\ clients' = r.tbl
       /\ rlHist' = [rlHist EXCEPT ![identifier] = h]
       /\ rlRes' = [id |-> identifier, ok |-> r.ok, n |-> h.n,
                    sinceBlock |-> IF h.b >= 0 THEN now - h.b ELSE -1,
                    pn |-> h.pn, at |-> now,
                    before |-> IF identifier \in DOMAIN clients
                               THEN clients[identifier] ELSE None]
       /\ UNCHANGED <<now, authVars, jwtVars, sessVars, extVars>>

TickRL ==
    /\ \E t \in RLInstants : t > now /\ now' = t
    /\ UNCHANGED <<authVars, jwtVars, sessVars, rlVars, extVars>>

NextRL ==
    \/ \E identifier \in Identifiers : AllowRequest(identifier)
    \/ TickRL

(***************************************************************************)
(* backend/access_control.rs                                               *)
(***************************************************************************)

\* AccessControl::new: the three roles and their permissions
AccessControlNew ==
    ("admin" :> [name |-> "admin", permissions |-> <<"ALL">>])
    @@ ("user" :> [name |-> "user", permissions |-> <<"READ", "WRITE">>])
    @@ ("guest" :> [name |-> "guest", permissions |-> <<"READ">>])

\* Vec::contains: some element equal to x
contains(v, x) == \E i \in 1..Len(v) : v[i] = x

\* has_permission without the test for "ALL"
has_permission_exact_only(tbl, role, action) ==
    IF role \in DOMAIN tbl THEN contains(tbl[role].permissions, action) ELSE FALSE

\* has_permission that gives an unknown role what guest has
has_permission_guest_fallback(tbl, role, action) ==
    IF role \in DOMAIN tbl
    THEN contains(tbl[role].permissions, "ALL") \/ contains(tbl[role].permissions, action)
    ELSE contains(tbl["guest"].permissions, action)

\* has_permission that permits a known role every action
has_permission_any_known(tbl, role, action) == role \in DOMAIN tbl

\* AccessControl::has_permission
has_permission(tbl, role, action) ==
    IF role \in DOMAIN tbl
    THEN contains(tbl[role].permissions, "ALL") \/ contains(tbl[role].permissions, action)
    ELSE FALSE

\* role names asked about: the three of the table, and names that are not in it
RoleNames ==
    {"admin", "user", "guest", "", "Admin", "ADMIN", "root", "gues", "guest ",
     "ALL", "administrator"}

\* actions asked about: the tokens of the table, and tokens that are near them
Actions ==
    {"ALL", "READ", "WRITE", "DELETE", "", "read", "REA", "READ_WRITE", "READ,WRITE",
     "WRIT", "all", "AL"}

(***************************************************************************)
(* Workers calling one component concurrently                              *)
(***************************************************************************)

\* threads that share the Arc of a component
MaxWorkers == 2
Workers == 1..MaxWorkers

\* Mutex::lock grants the mutex whoever holds it
MutexFreeAlways(holder) == TRUE

\* Mutex::lock: granted when no thread holds the mutex (holder 0)
MutexFree(holder) == holder = 0

\* the tables behind a Mutex: AuthDB.users, SessionStore.sessions,
\* RateLimiter.clients and AccessControl.roles
Tables == {"users", "sessions", "clients", "roles"}

\* the operations of the four components
Operations ==
    {"register_user", "authenticate_user", "create_session", "verify_session",
     "revoke_session", "allow_request", "has_permission"}

\* operations in which authenticate_user goes on to the session table with the
\* user table held, and create_session to the user table with the session table
\* held
LocksOfNested(op) ==
    CASE op = "register_user"     -> <<"users">>
      [] op = "authenticate_user" -> <<"users", "sessions">>
      [] op = "create_session"    -> <<"sessions", "users">>
      [] op = "verify_session"    -> <<"sessions">>
      [] op = "revoke_session"    -> <<"sessions">>
      [] op = "allow_request"     -> <<"clients">>
      [] op = "has_permission"    -> <<"roles">>

\* the lock() calls of each operation, in the order it makes them; every guard is
\* a local of the operation and is dropped when it returns
LocksOf(op) ==
    CASE op = "register_user"     -> <<"users">>
      [] op = "authenticate_user" -> <<"users">>
      [] op = "create_session"    -> <<"sessions">>
      [] op = "verify_session"    -> <<"sessions">>
      [] op = "revoke_session"    -> <<"sessions">>
      [] op = "allow_request"     -> <<"clients">>
      [] op = "has_permission"    -> <<"roles">>

\* operations that can return before their first lock(): verify_session on a
\* token that does not split in two or whose hash does not match
ReturnsUnlocked == {"verify_session"}

(***************************************************************************)
(* backend/auth.rs                                                         *)
(***************************************************************************)

MAX_FAILED_ATTEMPTS == 5
TOKEN_EXPIRATION == 3600
MFA_SECRET ==
    << "s", "u", "p", "e", "r", "_", "s", "e", "c", "u", "r", "e", "_",
       "m", "f", "a", "_", "s", "e", "c", "r", "e", "t" >>

\* inputs of the credential store
Usernames == { <<"a", "l", "i", "c", "e">>, <<"b", "o", "b">> }
Passwords == { <<"S", "e", "c", "r", "3", "t", "!">>, <<"h", "u", "n", "t", "e", "r", "2">> }
Salts     == { 1 }
\* what register_user is called with: a password and the role it comes with
Registrations ==
    { [password |-> <<"S", "e", "c", "r", "3", "t", "!">>, role |-> "admin"],
      [password |-> <<"h", "u", "n", "t", "e", "r", "2">>, role |-> "user"] }

\* argon2::hash_encoded: salted and one-way, the encoding carries the salt
hash_encoded(password, salt) ==
    [salt |-> salt, digest |-> <<"argon2", salt, as_bytes(password)>>]

\* argon2::verify_encoded(..).unwrap_or(false)
verify_encoded(hash, password) == hash = hash_encoded(password, hash.salt)

\* "{\"alg\":\"HS256\",\"typ\":\"JWT\"}"
JwtHeaderJson ==
    << "{", "\"", "a", "l", "g", "\"", ":", "\"", "H", "S", "2", "5", "6", "\"", ",",
       "\"", "t", "y", "p", "\"", ":", "\"", "J", "W", "T", "\"", "}" >>

\* format!("{{\"sub\":\"{}\",\"exp\":{}}}", username, exp)
JwtPayloadJson(username, exp) ==
    << "{", "\"", "s", "u", "b", "\"", ":", "\"" >> \o username
    \o << "\"", ",", "\"", "e", "x", "p", "\"", ":" >> \o ToDecimal(exp) \o << "}" >>

\* generate_jwt whose tag covers the payload without the header
generate_jwt_sign_payload(username, t) ==
    LET header    == encode(as_bytes(JwtHeaderJson))
        payload   == encode(as_bytes(JwtPayloadJson(username, t + TOKEN_EXPIRATION)))
        signature == encode(HmacSha256(as_bytes(MFA_SECRET), as_bytes(payload)))
    IN header \o <<".">> \o payload \o <<".">> \o signature

generate_jwt(username, t) ==
    LET header    == encode(as_bytes(JwtHeaderJson))
        payload   == encode(as_bytes(JwtPayloadJson(username, t + TOKEN_EXPIRATION)))
        signature == encode(HmacSha256(as_bytes(MFA_SECRET),
                                       as_bytes(header \o <<".">> \o payload)))
    IN header \o <<".">> \o payload \o <<".">> \o signature

\* verify_jwt that decodes the tag and never compares it
verify_jwt_no_mac(token) ==
    LET parts == SplitDot(token)
    IN IF Len(parts) # 3 THEN FALSE
       ELSE decode(parts[3]) # DecodeErr

verify_jwt(token) ==
    LET parts == SplitDot(token)
    IN IF Len(parts) # 3 THEN FALSE
       ELSE LET mac == HmacSha256(as_bytes(MFA_SECRET),
                                  as_bytes(parts[1] \o <<".">> \o parts[2]))
                decoded_sig == decode(parts[3])
            IN IF decoded_sig # DecodeErr THEN mac = decoded_sig ELSE FALSE

\* User { username, password_hash, role, failed_attempts: 0, last_failed_attempt: now,
\*        is_locked: false }
NewUser(username, password, role, salt, t) ==
    [ username            |-> username,
      password_hash       |-> hash_encoded(password, salt),
      role                |-> role,
      failed_attempts     |-> 0,
      last_failed_attempt |-> t,
      is_locked           |-> FALSE ]

\* HashMap::insert: a new key, or the value of an existing key replaced
Insert(map, key, value) ==
    [k \in DOMAIN map \cup {key} |-> IF k = key THEN value ELSE map[k]]

\* HashMap::remove
Remove(map, key) == [k \in DOMAIN map \ {key} |-> map[k]]

EmptyMap == [k \in {} |-> None]

\* AuthDB::register_user: the table after the call
register_user(db, username, password, role, salt, t) ==
    Insert(db, username, NewUser(username, password, role, salt, t))

\* authenticate_user without user.failed_attempts = 0 on success
authenticate_user_no_reset(db, username, password, t) ==
    IF username \in DOMAIN db THEN
        LET user == db[username]
        IN IF user.is_locked THEN
               [db |-> db, out |-> "AccountLocked", token |-> None]
           ELSE IF verify_encoded(user.password_hash, password) THEN
               [db |-> db, out |-> "Ok", token |-> generate_jwt(username, t)]
           ELSE
               LET failed == (user.failed_attempts + 1) % 256
               IN [db    |-> [db EXCEPT ![username].failed_attempts = failed,
                                        ![username].last_failed_attempt = t,
                                        ![username].is_locked =
                                            (failed >= MAX_FAILED_ATTEMPTS)],
                   out   |-> "InvalidCredentials",
                   token |-> None]
    ELSE [db |-> db, out |-> "UserNotFound", token |-> None]

\* authenticate_user that stamps the attempt on a locked record before refusing it
authenticate_user_locked_counts(db, username, password, t) ==
    IF username \in DOMAIN db THEN
        LET user == db[username]
        IN IF user.is_locked THEN
               [db    |-> [db EXCEPT ![username].last_failed_attempt = t],
                out   |-> "AccountLocked",
                token |-> None]
           ELSE IF verify_encoded(user.password_hash, password) THEN
               [db    |-> [db EXCEPT ![username].failed_attempts = 0],
                out   |-> "Ok",
                token |-> generate_jwt(username, t)]
           ELSE
               LET failed == (user.failed_attempts + 1) % 256
               IN [db    |-> [db EXCEPT ![username].failed_attempts = failed,
                                        ![username].last_failed_attempt = t,
                                        ![username].is_locked =
                                            (failed >= MAX_FAILED_ATTEMPTS)],
                   out   |-> "InvalidCredentials",
                   token |-> None]
    ELSE [db |-> db, out |-> "UserNotFound", token |-> None]

\* authenticate_user that locks when failed_attempts > MAX_FAILED_ATTEMPTS
authenticate_user_lock_after_max(db, username, password, t) ==
    IF username \in DOMAIN db THEN
        LET user == db[username]
        IN IF user.is_locked THEN
               [db |-> db, out |-> "AccountLocked", token |-> None]
           ELSE IF verify_encoded(user.password_hash, password) THEN
               [db    |-> [db EXCEPT ![username].failed_attempts = 0],
                out   |-> "Ok",
                token |-> generate_jwt(username, t)]
           ELSE
               LET failed == (user.failed_attempts + 1) % 256
               IN [db    |-> [db EXCEPT ![username].failed_attempts = failed,
                                        ![username].last_failed_attempt = t,
                                        ![username].is_locked =
                                            (failed > MAX_FAILED_ATTEMPTS)],
                   out   |-> "InvalidCredentials",
                   token |-> None]
    ELSE [db |-> db, out |-> "UserNotFound", token |-> None]

\* authenticate_user that takes the record with entry().or_insert instead of get_mut
authenticate_user_creates_record(db, username, password, t) ==
    IF username \in DOMAIN db THEN
        LET user == db[username]
        IN IF user.is_locked THEN
               [db |-> db, out |-> "AccountLocked", token |-> None]
           ELSE IF verify_encoded(user.password_hash, password) THEN
               [db    |-> [db EXCEPT ![username].failed_attempts = 0],
                out   |-> "Ok",
                token |-> generate_jwt(username, t)]
           ELSE
               LET failed == (user.failed_attempts + 1) % 256
               IN [db    |-> [db EXCEPT ![username].failed_attempts = failed,
                                        ![username].last_failed_attempt = t,
                                        ![username].is_locked =
                                            (failed >= MAX_FAILED_ATTEMPTS)],
                   out   |-> "InvalidCredentials",
                   token |-> None]
    ELSE [db    |-> Insert(db, username, NewUser(username, <<>>, "user", 1, t)),
          out   |-> "UserNotFound",
          token |-> None]

\* AuthDB::authenticate_user: the table after the call, the Result and the token of Ok
authenticate_user(db, username, password, t) ==
    IF username \in DOMAIN db THEN
        LET user == db[username]
        IN IF user.is_locked THEN
               [db |-> db, out |-> "AccountLocked", token |-> None]
           ELSE IF verify_encoded(user.password_hash, password) THEN
               [db    |-> [db EXCEPT ![username].failed_attempts = 0],
                out   |-> "Ok",
                token |-> generate_jwt(username, t)]
           ELSE
               LET failed == (user.failed_attempts + 1) % 256
               IN [db    |-> [db EXCEPT ![username].failed_attempts = failed,
                                        ![username].last_failed_attempt = t,
                                        ![username].is_locked =
                                            (failed >= MAX_FAILED_ATTEMPTS)],
                   out   |-> "InvalidCredentials",
                   token |-> None]
    ELSE [db |-> db, out |-> "UserNotFound", token |-> None]

\* whether password is the one username is registered with
WrongPassword(db, username, password) ==
    username \in DOMAIN db /\ ~verify_encoded(db[username].password_hash, password)

\* the clock readings at which the credential store is called
AuthInstants == {0, TOKEN_EXPIRATION + 1}

RegisterUser(u, p, r, salt) ==
    /\ users' = register_user(users, u, p, r, salt, now)
    /\ authRes' = [op |-> "register", user |-> u, out |-> "Ok", token |-> None,
                   afterMax |-> FALSE, dup |-> u \in DOMAIN users,
                   failedBefore |-> 0, fresh |-> 0, right |-> FALSE]
    /\ wrongRun' = [wrongRun EXCEPT ![u] = 0]
    /\ freshRun' = [freshRun EXCEPT ![u] = 0]
    /\ UNCHANGED <<now, maxedOut, jwtVars, sessVars, rlVars, extVars>>

AuthenticateUser(u, p) ==
    LET r   == authenticate_user(users, u, p, now)
        run == IF WrongPassword(users, u, p)
               THEN (IF wrongRun[u] < MAX_FAILED_ATTEMPTS THEN wrongRun[u] + 1 ELSE wrongRun[u])
               ELSE 0
        \* the index of this call among the calls made since the registration, as
        \* long as every one of them gave a wrong password; -1 otherwise
        fresh == IF WrongPassword(users, u, p) /\ freshRun[u] >= 0
                    /\ freshRun[u] < MAX_FAILED_ATTEMPTS
                 THEN freshRun[u] + 1 ELSE -1
    IN /\ users' = r.db
       /\ authRes' = [op |-> "authenticate", user |-> u, out |-> r.out, token |-> r.token,
                      afterMax |-> u \in maxedOut, dup |-> FALSE,
                      failedBefore |-> IF u \in DOMAIN users
                                       THEN users[u].failed_attempts ELSE 0,
                      fresh |-> IF fresh > 0 THEN fresh ELSE 0,
                      right |-> u \in DOMAIN users
                                /\ verify_encoded(users[u].password_hash, p)]
       /\ freshRun' = [freshRun EXCEPT ![u] = fresh]
       /\ wrongRun' = [wrongRun EXCEPT ![u] = run]
       /\ maxedOut' = IF run >= MAX_FAILED_ATTEMPTS THEN maxedOut \cup {u} ELSE maxedOut
       /\ UNCHANGED <<now, jwtVars, sessVars, rlVars, extVars>>

TickAuth ==
    /\ \E t \in AuthInstants : t > now /\ now' = t
    /\ UNCHANGED <<authVars, jwtVars, sessVars, rlVars, extVars>>

Init ==
    /\ now = 0
    /\ users = EmptyMap
    /\ authRes = [op |-> "none", user |-> None, out |-> "Ok", token |-> None,
                  afterMax |-> FALSE, dup |-> FALSE, failedBefore |-> 0, fresh |-> 0,
                  right |-> FALSE]
    /\ freshRun = [u \in Usernames |-> -1]
    /\ wrongRun = [u \in Usernames |-> 0]
    /\ maxedOut = {}
    /\ jwt = None
    /\ jwtRes = None
    /\ sessions = EmptyMap
    /\ issued = {}
    /\ revoked = {}
    /\ everRevoked = {}
    /\ sessRes = [op |-> "none", token |-> None, ip |-> None, ok |-> TRUE, had |-> FALSE]
    /\ clients = EmptyMap
    /\ rlRes = [id |-> None, ok |-> TRUE, n |-> 0, sinceBlock |-> -1, pn |-> 0,
                at |-> 0, before |-> None]
    /\ rlHist = [id \in Identifiers |->
                    [total |-> 0, first |-> -1, n |-> 0, b |-> -1, p |-> -1, pn |-> 0]]
    /\ roles = AccessControlNew
    /\ permRes = [called |-> FALSE, role |-> "", action |-> "", ok |-> FALSE]
    /\ rcMutex = 0
    /\ rcPc = [w \in Workers |-> "idle"]
    /\ rcLocal = [w \in Workers |-> 0]
    /\ rcIncr = 0
    /\ rcTrues = 0
    /\ auMutex = 0
    /\ auPc = [w \in Workers |-> "idle"]
    /\ auCall = [w \in Workers |-> None]
    /\ auLocal = [w \in Workers |-> 0]
    /\ auVerifs = 0
    /\ auIncr = 0
    /\ auLate = FALSE
    /\ lkMutex = [t \in Tables |-> 0]
    /\ lkPc = [w \in Workers |-> "idle"]
    /\ lkOp = [w \in Workers |-> ""]
    /\ lkHeld = [w \in Workers |-> 0]

NextAuth ==
    \/ \E u \in Usernames, reg \in Registrations, salt \in Salts :
           RegisterUser(u, reg.password, reg.role, salt)
    \/ \E u \in Usernames, p \in Passwords : AuthenticateUser(u, p)
    \/ TickAuth

SpecAuth == Init /\ [][NextAuth]_vars

(***************************************************************************)
(* The token service alone: generate_jwt and verify_jwt against the clock  *)
(***************************************************************************)

\* the clock readings at which tokens are issued and presented: up to MaxSkew
\* seconds after the start and after each lifetime that has passed since
MaxSkew == 1
JwtInstants == {(k * TOKEN_EXPIRATION) + j : k \in 0..1, j \in 0..MaxSkew}

\* generate_jwt(subject) is called and its token handed to a client
IssueJwt(u) ==
    /\ jwt' = [token |-> generate_jwt(u, now), sub |-> u, exp |-> now + TOKEN_EXPIRATION]
    /\ UNCHANGED <<now, jwtRes, authVars, sessVars, rlVars, extVars>>

\* the client presents the token it holds
VerifyJwt ==
    /\ jwt # None
    /\ jwtRes' = [ok |-> verify_jwt(jwt.token), sub |-> jwt.sub, exp |-> jwt.exp, at |-> now,
                  token |-> jwt.token]
    /\ UNCHANGED <<now, jwt, authVars, sessVars, rlVars, extVars>>

\* what a client can make of a token without the key: the payload of another
\* subject or of a later expiry under the tag it was given, or its own payload
\* under the tag of another subject's token
AlterKinds == {"subject", "expiry", "tag"}

AlteredToken(j, kind, other) ==
    LET parts == SplitDot(j.token)
        theirs == SplitDot(generate_jwt(other, j.exp - TOKEN_EXPIRATION))
    IN CASE kind = "subject" ->
                parts[1] \o <<".">> \o encode(as_bytes(JwtPayloadJson(other, j.exp)))
                \o <<".">> \o parts[3]
         [] kind = "expiry" ->
                parts[1] \o <<".">>
                \o encode(as_bytes(JwtPayloadJson(j.sub, j.exp + TOKEN_EXPIRATION)))
                \o <<".">> \o parts[3]
         [] OTHER ->
                parts[1] \o <<".">> \o parts[2] \o <<".">> \o theirs[3]

\* the client presents an altered token
VerifyAltered(kind, other) ==
    /\ jwt # None
    /\ other # jwt.sub
    /\ LET token == AlteredToken(jwt, kind, other)
       IN jwtRes' = [ok |-> verify_jwt(token), sub |-> jwt.sub, exp |-> jwt.exp, at |-> now,
                     token |-> token]
    /\ UNCHANGED <<now, jwt, authVars, sessVars, rlVars, extVars>>

TickJwt ==
    /\ \E t \in JwtInstants : t > now /\ now' = t
    /\ UNCHANGED <<authVars, jwtVars, sessVars, rlVars, extVars>>

NextJwt ==
    \/ \E u \in Usernames : IssueJwt(u)
    \/ VerifyJwt
    \/ \E kind \in AlterKinds, other \in Usernames : VerifyAltered(kind, other)
    \/ TickJwt

SpecJwt == Init /\ [][NextJwt]_vars

(***************************************************************************)
(* The access evaluator: has_permission on the table of AccessControl::new *)
(***************************************************************************)

HasPermission(role, action) ==
    /\ permRes' = [called |-> TRUE, role |-> role, action |-> action,
                   ok |-> has_permission(roles, role, action)]
    /\ UNCHANGED <<now, roles, authVars, jwtVars, sessVars, rlVars, rcVars, auVars, lkVars>>

NextAccess == \E role \in RoleNames, action \in Actions : HasPermission(role, action)

SpecAccess == Init /\ [][NextAccess]_vars

(***************************************************************************)
(* allow_request called by several workers on one identifier, statement by *)
(* statement: the MutexGuard taken in its first line lives to the return   *)
(***************************************************************************)

\* let user_ip = "192.168.1.1" of main
rcIdentifier == "192.168.1.1"

\* a worker calls allow_request(user_ip)
RcCall(w) ==
    /\ rcPc[w] = "idle"
    /\ rcPc' = [rcPc EXCEPT ![w] = "lock"]
    /\ UNCHANGED <<now, rcMutex, rcLocal, rcIncr, rcTrues,
                   authVars, jwtVars, sessVars, rlVars, accVars, auVars, lkVars>>

\* let mut clients = self.clients.lock().unwrap()
RcLock(w) ==
    /\ rcPc[w] = "lock"
    /\ MutexFree(rcMutex)
    /\ rcMutex' = w
    /\ rcPc' = [rcPc EXCEPT ![w] = "entry"]
    /\ UNCHANGED <<now, rcLocal, rcIncr, rcTrues,
                   authVars, jwtVars, sessVars, rlVars, accVars, auVars, lkVars>>

\* entry(..).or_insert((0, now, false)), and the return of a blocked identifier
RcEntry(w) ==
    /\ rcPc[w] = "entry"
    /\ LET entry == IF rcIdentifier \in DOMAIN clients
                    THEN clients[rcIdentifier] ELSE <<0, now, FALSE>>
           denied == entry[3] /\ Elapsed(entry[2], now, 0) < BLOCK_DURATION
       IN /\ clients' = Insert(clients, rcIdentifier, entry)
          /\ rcPc' = [rcPc EXCEPT ![w] = IF denied THEN "idle" ELSE "window"]
          /\ rcMutex' = IF denied THEN 0 ELSE rcMutex
    /\ UNCHANGED <<now, rlRes, rlHist, rcLocal, rcIncr, rcTrues,
                   authVars, jwtVars, sessVars, accVars, auVars, lkVars>>

\* if last_request.elapsed() > 60 s { *count = 0; *last_request = now }
RcWindow(w) ==
    /\ rcPc[w] = "window"
    /\ LET entry == clients[rcIdentifier]
       IN clients' = IF Elapsed(entry[2], now, WINDOW) > WINDOW
                     THEN [clients EXCEPT ![rcIdentifier] = <<0, now, entry[3]>>]
                     ELSE clients
    /\ rcPc' = [rcPc EXCEPT ![w] = "load"]
    /\ UNCHANGED <<now, rlRes, rlHist, rcMutex, rcLocal, rcIncr, rcTrues,
                   authVars, jwtVars, sessVars, accVars, auVars, lkVars>>

\* *count += 1, the load
RcLoad(w) ==
    /\ rcPc[w] = "load"
    /\ rcLocal' = [rcLocal EXCEPT ![w] = clients[rcIdentifier][1]]
    /\ rcPc' = [rcPc EXCEPT ![w] = "store"]
    /\ UNCHANGED <<now, rcMutex, rcIncr, rcTrues,
                   authVars, jwtVars, sessVars, rlVars, accVars, auVars, lkVars>>

\* *count += 1, the store; the two comparisons; the return, which drops the guard
RcStore(w) ==
    /\ rcPc[w] = "store"
    /\ LET entry == clients[rcIdentifier]
           count == rcLocal[w] + 1
       IN /\ clients' =
                 IF count > MAX_REQUESTS_PER_MINUTE
                 THEN [clients EXCEPT ![rcIdentifier] = <<count, now, TRUE>>]
                 ELSE [clients EXCEPT ![rcIdentifier] = <<count, entry[2], entry[3]>>]
          /\ rcTrues' = IF count > BURST_THRESHOLD THEN rcTrues ELSE rcTrues + 1
    /\ rcIncr' = rcIncr + 1
    /\ rcMutex' = 0
    /\ rcPc' = [rcPc EXCEPT ![w] = "idle"]
    /\ rcLocal' = [rcLocal EXCEPT ![w] = 0]
    /\ UNCHANGED <<now, rlRes, rlHist,
                   authVars, jwtVars, sessVars, accVars, auVars, lkVars>>

NextRlConc ==
    \E w \in Workers :
        \/ RcCall(w)
        \/ RcLock(w)
        \/ RcEntry(w)
        \/ RcWindow(w)
        \/ RcLoad(w)
        \/ RcStore(w)

SpecRlConc == Init /\ [][NextRlConc]_vars

(***************************************************************************)
(* authenticate_user called by several workers, statement by statement:    *)
(* the MutexGuard taken in its first line lives to the return              *)
(***************************************************************************)

\* the one identity of this scenario is registered, once
AuRegister(u, p, r, salt) ==
    /\ users = EmptyMap
    /\ RegisterUser(u, p, r, salt)

\* a worker calls authenticate_user(u, p)
AuCall(w, u, p) ==
    /\ auPc[w] = "idle"
    /\ auPc' = [auPc EXCEPT ![w] = "lock"]
    /\ auCall' = [auCall EXCEPT ![w] =
                      [user |-> u, password |-> p,
                       late |-> u \in DOMAIN users /\ users[u].is_locked]]
    /\ UNCHANGED <<now, auMutex, auLocal, auVerifs, auIncr, auLate,
                   authVars, jwtVars, sessVars, rlVars, accVars, rcVars, lkVars>>

\* let mut users = self.users.lock().unwrap()
AuLock(w) ==
    /\ auPc[w] = "lock"
    /\ MutexFree(auMutex)
    /\ auMutex' = w
    /\ auPc' = [auPc EXCEPT ![w] = "lookup"]
    /\ UNCHANGED <<now, auCall, auLocal, auVerifs, auIncr, auLate,
                   authVars, jwtVars, sessVars, rlVars, accVars, rcVars, lkVars>>

\* users.get_mut(username), and the returns of an unknown and of a locked user
AuLookup(w) ==
    /\ auPc[w] = "lookup"
    /\ LET u      == auCall[w].user
           return == u \notin DOMAIN users \/ users[u].is_locked
       IN /\ auPc' = [auPc EXCEPT ![w] = IF return THEN "idle" ELSE "verify"]
          /\ auMutex' = IF return THEN 0 ELSE auMutex
          /\ auCall' = IF return THEN [auCall EXCEPT ![w] = None] ELSE auCall
    /\ UNCHANGED <<now, auLocal, auVerifs, auIncr, auLate,
                   authVars, jwtVars, sessVars, rlVars, accVars, rcVars, lkVars>>

\* argon2::verify_encoded(&user.password_hash, password).unwrap_or(false)
AuVerify(w) ==
    /\ auPc[w] = "verify"
    /\ LET ok == verify_encoded(users[auCall[w].user].password_hash, auCall[w].password)
       IN /\ auPc' = [auPc EXCEPT ![w] = IF ok THEN "success" ELSE "load"]
          /\ auVerifs' = IF ok THEN auVerifs ELSE auVerifs + 1
    /\ UNCHANGED <<now, auMutex, auCall, auLocal, auIncr, auLate,
                   authVars, jwtVars, sessVars, rlVars, accVars, rcVars, lkVars>>

\* user.failed_attempts = 0; return Ok(generate_jwt(username))
AuSuccess(w) ==
    /\ auPc[w] = "success"
    /\ users' = [users EXCEPT ![auCall[w].user].failed_attempts = 0]
    /\ auLate' = (auLate \/ auCall[w].late)
    /\ auVerifs' = 0
    /\ auIncr' = 0
    /\ auMutex' = 0
    /\ auPc' = [auPc EXCEPT ![w] = "idle"]
    /\ auCall' = [auCall EXCEPT ![w] = None]
    /\ UNCHANGED <<now, authRes, wrongRun, maxedOut, freshRun, auLocal,
                   jwtVars, sessVars, rlVars, accVars, rcVars, lkVars>>

\* user.failed_attempts += 1, the load
AuLoad(w) ==
    /\ auPc[w] = "load"
    /\ auLocal' = [auLocal EXCEPT ![w] = users[auCall[w].user].failed_attempts]
    /\ auPc' = [auPc EXCEPT ![w] = "store"]
    /\ UNCHANGED <<now, auMutex, auCall, auVerifs, auIncr, auLate,
                   authVars, jwtVars, sessVars, rlVars, accVars, rcVars, lkVars>>

\* user.failed_attempts += 1, the store; last_failed_attempt; the comparison with
\* MAX_FAILED_ATTEMPTS; the return, which drops the guard
AuStore(w) ==
    /\ auPc[w] = "store"
    /\ LET u      == auCall[w].user
           failed == (auLocal[w] + 1) % 256
       IN users' = [users EXCEPT ![u].failed_attempts = failed,
                                 ![u].last_failed_attempt = now,
                                 ![u].is_locked =
                                     (users[u].is_locked \/ failed >= MAX_FAILED_ATTEMPTS)]
    /\ auIncr' = auIncr + 1
    /\ auLocal' = [auLocal EXCEPT ![w] = 0]
    /\ auMutex' = 0
    /\ auPc' = [auPc EXCEPT ![w] = "idle"]
    /\ auCall' = [auCall EXCEPT ![w] = None]
    /\ UNCHANGED <<now, authRes, wrongRun, maxedOut, freshRun, auVerifs, auLate,
                   jwtVars, sessVars, rlVars, accVars, rcVars, lkVars>>

NextAuConc ==
    \/ \E u \in Usernames, reg \in Registrations, salt \in Salts :
           AuRegister(u, reg.password, reg.role, salt)
    \/ \E w \in Workers :
           \/ \E u \in Usernames, p \in Passwords : AuCall(w, u, p)
           \/ AuLock(w)
           \/ AuLookup(w)
           \/ AuVerify(w)
           \/ AuSuccess(w)
           \/ AuLoad(w)
           \/ AuStore(w)

SpecAuConc == Init /\ [][NextAuConc]_vars

(***************************************************************************)
(* The operations of the four components called by several workers, each   *)
(* seen as its lock() calls and its return                                 *)
(***************************************************************************)

\* a worker calls an operation
LkCall(w, op) ==
    /\ lkPc[w] = "idle"
    /\ lkPc' = [lkPc EXCEPT ![w] = "run"]
    /\ lkOp' = [lkOp EXCEPT ![w] = op]
    /\ UNCHANGED <<now, lkMutex, lkHeld,
                   authVars, jwtVars, sessVars, rlVars, accVars, rcVars, auVars>>

\* the next lock() of the operation: the worker waits until the mutex is free
LkLock(w) ==
    /\ lkPc[w] = "run"
    /\ lkHeld[w] < Len(LocksOf(lkOp[w]))
    /\ LET t == LocksOf(lkOp[w])[lkHeld[w] + 1]
       IN /\ MutexFree(lkMutex[t])
          /\ lkMutex' = [lkMutex EXCEPT ![t] = w]
    /\ lkHeld' = [lkHeld EXCEPT ![w] = lkHeld[w] + 1]
    /\ UNCHANGED <<now, lkPc, lkOp,
                   authVars, jwtVars, sessVars, rlVars, accVars, rcVars, auVars>>

\* a return made before the first lock()
LkReturnUnlocked(w) ==
    /\ lkPc[w] = "run"
    /\ lkHeld[w] = 0
    /\ lkOp[w] \in ReturnsUnlocked
    /\ lkPc' = [lkPc EXCEPT ![w] = "idle"]
    /\ lkOp' = [lkOp EXCEPT ![w] = ""]
    /\ UNCHANGED <<now, lkMutex, lkHeld,
                   authVars, jwtVars, sessVars, rlVars, accVars, rcVars, auVars>>

\* the return of the operation, which drops the guards it holds
LkReturn(w) ==
    /\ lkPc[w] = "run"
    /\ lkHeld[w] = Len(LocksOf(lkOp[w]))
    /\ lkMutex' = [t \in Tables |-> IF lkMutex[t] = w THEN 0 ELSE lkMutex[t]]
    /\ lkHeld' = [lkHeld EXCEPT ![w] = 0]
    /\ lkPc' = [lkPc EXCEPT ![w] = "idle"]
    /\ lkOp' = [lkOp EXCEPT ![w] = ""]
    /\ UNCHANGED <<now, authVars, jwtVars, sessVars, rlVars, accVars, rcVars, auVars>>

\* a step of a worker inside an operation
LkStep(w) == LkLock(w) \/ LkReturnUnlocked(w) \/ LkReturn(w)

NextLocks ==
    \E w \in Workers :
        \/ \E op \in Operations : LkCall(w, op)
        \/ LkLock(w)
        \/ LkReturnUnlocked(w)
        \/ LkReturn(w)

\* every worker inside an operation is scheduled again, and a worker waiting for
\* a mutex that is free again and again gets it
SpecLocksFair ==
    /\ Init
    /\ [][NextLocks]_vars
    /\ \A w \in Workers : SF_vars(LkStep(w))

(***************************************************************************)
(* Claims on the credential store and the token service                    *)
(***************************************************************************)

\* C1: once MAX_FAILED_ATTEMPTS consecutive wrong-password authenticate calls have
\* been made on a registered identity its lock flag is set, and every later
\* authenticate call for it fails with AccountLocked and issues no token.
C1_LockedAfterMaxFailures ==
    /\ \A u \in DOMAIN users :
           wrongRun[u] >= MAX_FAILED_ATTEMPTS => users[u].is_locked
    /\ (authRes.op = "authenticate" /\ authRes.afterMax)
           => (authRes.out = "AccountLocked" /\ authRes.token = None)

\* C2: a lock flag that is set stays set through every operation of the core.
C2_LockStaysSet ==
    [][\A u \in DOMAIN users :
           users[u].is_locked => (u \in DOMAIN users' /\ users'[u].is_locked)]_vars

\* C3: verify never accepts a token at an instant later than its embedded expiry.
C3_ExpiredTokenRejected ==
    (jwtRes # None /\ jwtRes.at > jwtRes.exp) => ~jwtRes.ok

\* every token generate_jwt returns at the instants of the token service
GenuineTokens == {generate_jwt(u, t) : u \in Usernames, t \in JwtInstants}

\* C15: for every subject, verify(issue(subject)) presented unmodified before the
\* embedded expiry succeeds, and the payload it accepted names that subject.
C15_IssueThenVerify ==
    (/\ jwtRes # None
     /\ jwtRes.token = generate_jwt(jwtRes.sub, jwtRes.exp - TOKEN_EXPIRATION)
     /\ jwtRes.at <= jwtRes.exp)
        => /\ jwtRes.ok
           /\ decode(SplitDot(jwtRes.token)[2])
                  = as_bytes(JwtPayloadJson(jwtRes.sub, jwtRes.exp))

\* a token verified in the second it was issued, and accepted
C15_Witness ==
    /\ jwtRes # None /\ jwtRes.ok
    /\ jwtRes.token = generate_jwt(jwtRes.sub, jwtRes.exp - TOKEN_EXPIRATION)
    /\ jwtRes.at = jwtRes.exp - TOKEN_EXPIRATION

\* C16: verify accepts no token but one that carries the header, the payload and
\* the tag of one token generate_jwt produced: no altered subject, expiry or tag
\* is accepted.
C16_AlteredTokenRejected ==
    (jwtRes # None /\ jwtRes.ok)
        => \E g \in GenuineTokens :
               LET mine   == SplitDot(jwtRes.token)
                   theirs == SplitDot(g)
               IN /\ mine[1] = theirs[1]
                  /\ mine[2] = theirs[2]
                  /\ decode(mine[3]) = decode(theirs[3])

\* a three-part token with decodable tag and an altered payload, presented before
\* the expiry of the token it was made from, was rejected
C16_Witness ==
    /\ jwtRes # None /\ ~jwtRes.ok
    /\ jwtRes.token \notin GenuineTokens
    /\ Len(SplitDot(jwtRes.token)) = 3
    /\ decode(SplitDot(jwtRes.token)[3]) # DecodeErr
    /\ decode(SplitDot(jwtRes.token)[2]) # as_bytes(JwtPayloadJson(jwtRes.sub, jwtRes.exp))
    /\ jwtRes.at <= jwtRes.exp

\* C11: register for a username that already has a record fails with
\* DuplicateIdentity and leaves the record (hash, role, counter, lock) unchanged.
C11_DuplicateRegisterRejected ==
    [][(authRes'.op = "register" /\ authRes'.dup)
           => /\ authRes'.out = "DuplicateIdentity"
              /\ users'[authRes'.user] = users[authRes'.user]]_vars

\* C12: on a freshly registered identity the first four consecutive wrong-password
\* authenticate calls return InvalidCredentials and leave it unlocked, and the
\* fifth such call itself returns AccountLocked.
C12_FifthWrongCallLocked ==
    authRes.op = "authenticate"
        => /\ authRes.fresh \in 1..(MAX_FAILED_ATTEMPTS - 1)
                  => /\ authRes.out = "InvalidCredentials"
                     /\ ~users[authRes.user].is_locked
           /\ authRes.fresh = MAX_FAILED_ATTEMPTS => authRes.out = "AccountLocked"

\* C13: a successful authenticate leaves the failed-attempt counter at zero whatever
\* it was before, and a lock flag is only ever set by the call that completes
\* MAX_FAILED_ATTEMPTS consecutive wrong-password calls.
C13_SuccessResetsCounter ==
    [][/\ (authRes'.op = "authenticate" /\ authRes'.out = "Ok")
            => users'[authRes'.user].failed_attempts = 0
       /\ \A u \in DOMAIN users :
              (~users[u].is_locked /\ users'[u].is_locked)
                  => wrongRun'[u] = MAX_FAILED_ATTEMPTS]_vars

\* a success that found the counter one short of the threshold and left it at zero
C13_Witness ==
    /\ authRes.op = "authenticate" /\ authRes.out = "Ok"
    /\ authRes.failedBefore = MAX_FAILED_ATTEMPTS - 1
    /\ users[authRes.user].failed_attempts = 0
    /\ ~users[authRes.user].is_locked

\* C14: authenticate answers an unknown username with the outcome it gives a known,
\* unlocked username with a wrong password, InvalidCredentials.
C14_UnknownUserIndistinguishable ==
    (authRes.op = "authenticate" /\ authRes.user \notin DOMAIN users)
        => authRes.out = "InvalidCredentials"

\* C32: authenticate_user on a record whose is_locked is set returns the
\* account-locked error whatever the password, and leaves the whole table
\* (failed_attempts, last_failed_attempt, is_locked) as it was.  The step of a call
\* is the one that leaves the clock alone and an authenticate result behind.
C32_LockedCallChangesNothing ==
    [][(/\ authRes'.op = "authenticate" /\ now' = now
        /\ authRes'.user \in DOMAIN users
        /\ users[authRes'.user].is_locked)
           => /\ authRes'.out = "AccountLocked"
              /\ authRes'.token = None
              /\ users' = users]_vars

\* the right password is refused on a locked record, at a later clock reading than
\* the last failed attempt the record keeps
C32_Witness ==
    /\ authRes.op = "authenticate" /\ authRes.out = "AccountLocked"
    /\ authRes.right
    /\ users[authRes.user].is_locked
    /\ users[authRes.user].failed_attempts = MAX_FAILED_ATTEMPTS
    /\ users[authRes.user].last_failed_attempt < now

\* C36: every record has 0 <= failed_attempts <= MAX_FAILED_ATTEMPTS, and its
\* is_locked is set exactly when failed_attempts >= MAX_FAILED_ATTEMPTS; the 8-bit
\* counter never wraps.
C36_CounterWithinMax ==
    \A u \in DOMAIN users :
        /\ users[u].failed_attempts \in 0..MAX_FAILED_ATTEMPTS
        /\ users[u].is_locked <=> (users[u].failed_attempts >= MAX_FAILED_ATTEMPTS)
        /\ (authRes.op = "authenticate" /\ authRes.user = u
               /\ authRes.out = "InvalidCredentials")
              => users[u].failed_attempts = authRes.failedBefore + 1

\* the wrong-password call that took the counter from one short of the maximum to
\* the maximum and set the flag, beside a record that is still short of it
C36_Witness ==
    /\ authRes.op = "authenticate" /\ authRes.out = "InvalidCredentials"
    /\ authRes.failedBefore = MAX_FAILED_ATTEMPTS - 1
    /\ users[authRes.user].failed_attempts = MAX_FAILED_ATTEMPTS
    /\ users[authRes.user].is_locked
    /\ \E v \in DOMAIN users :
           users[v].failed_attempts \in 1..(MAX_FAILED_ATTEMPTS - 1) /\ ~users[v].is_locked

\* C39: authenticate_user for a username without a record fails and leaves the
\* table as it was, and a call for one username changes no other record: no
\* record appears and no other counter or flag moves.
C39_UnknownUserChangesNothing ==
    [][(authRes'.op = "authenticate" /\ now' = now)
           => /\ DOMAIN users' = DOMAIN users
              /\ \A v \in DOMAIN users : v # authRes'.user => users'[v] = users[v]
              /\ authRes'.user \notin DOMAIN users
                    => /\ authRes'.out # "Ok"
                       /\ authRes'.token = None
                       /\ users' = users]_vars

\* a call for a username without a record, beside a record one wrong password
\* short of the lock
C39_Witness ==
    /\ authRes.op = "authenticate"
    /\ authRes.user \notin DOMAIN users
    /\ authRes.out = "UserNotFound"
    /\ \E v \in DOMAIN users :
           users[v].failed_attempts = MAX_FAILED_ATTEMPTS - 1 /\ ~users[v].is_locked

(***************************************************************************)
(* backend/session_management.rs                                           *)
(***************************************************************************)

SESSION_EXPIRATION == 3600

\* source addresses: a dotted IPv4 address and the IPv6 loopback
IPs == { <<"1", "0", ".", "0", ".", "0", ".", "5">>, <<":", ":", "1">> }

\* the clock readings at which the registry is called: the start, the last second
\* of a session created then, and the second after
SessInstants == {0, SESSION_EXPIRATION, SESSION_EXPIRATION + 1}

\* format!("{{\"sub\":\"{}\",\"exp\":{},\"ip\":\"{}\"}}", username, expiry, ip)
SessionPayload(username, expiry, ip) ==
    << "{", "\"", "s", "u", "b", "\"", ":", "\"" >> \o username
    \o << "\"", ",", "\"", "e", "x", "p", "\"", ":" >> \o ToDecimal(expiry)
    \o << ",", "\"", "i", "p", "\"", ":", "\"" >> \o ip \o << "\"", "}" >>

\* a ^ b on four bits
XorNibble ==
    [a \in 0..15, b \in 0..15 |->
        ((((a % 2) + (b % 2)) % 2)
         + (2 * ((((a \div 2) % 2) + ((b \div 2) % 2)) % 2)))
         + ((4 * ((((a \div 4) % 2) + ((b \div 4) % 2)) % 2))
         + (8 * (((a \div 8) + (b \div 8)) % 2)))]

XorByte(a, b) == (16 * XorNibble[a \div 16, b \div 16]) + XorNibble[a % 16, b % 16]

\* A u32 is its four bytes, most significant first (to_be_bytes).
\* 0x6A09E667
Sha256Seed == <<106, 9, 230, 103>>

\* accumulator.wrapping_add(byte as u32)
WrappingAdd(acc, byte) ==
    LET s4 == acc[4] + byte
        s3 == acc[3] + (s4 \div 256)
        s2 == acc[2] + (s3 \div 256)
        s1 == acc[1] + (s2 \div 256)
    IN <<s1 % 256, s2 % 256, s3 % 256, s4 % 256>>

\* accumulator.rotate_left(5)
RotateLeft5(acc) ==
    << ((acc[1] * 32) % 256) + (acc[2] \div 8),
       ((acc[2] * 32) % 256) + (acc[3] \div 8),
       ((acc[3] * 32) % 256) + (acc[4] \div 8),
       ((acc[4] * 32) % 256) + (acc[1] \div 8) >>

Xor32(x, y) ==
    <<XorByte(x[1], y[1]), XorByte(x[2], y[2]), XorByte(x[3], y[3]), XorByte(x[4], y[4])>>

\* one turn of the loop of sha256
Sha256Step(acc, byte) ==
    LET added == WrappingAdd(acc, byte)
    IN Xor32(added, RotateLeft5(added))

U32 == [1..4 -> 0..255]

\* fn sha256: the loop over the bytes, then the accumulator's four bytes eight
\* times over
Sha256Compute(data) ==
    LET Fold[i \in Nat, acc \in U32] ==
            IF i > Len(data) THEN acc
            ELSE Fold[i + 1, Sha256Step(acc, data[i])]
        final == Fold[1, Sha256Seed]
    IN final \o final \o final \o final \o final \o final \o final \o final

\* Sha256Compute on the payloads the registry's inputs produce, computed once
Sha256Memo ==
    [data \in {as_bytes(SessionPayload(u, t + SESSION_EXPIRATION, ip)) \o <<>> :
                  u \in Usernames, ip \in IPs, t \in SessInstants}
        |-> Sha256Compute(data)]

\* fn sha256
sha256(data) ==
    IF data \in DOMAIN Sha256Memo THEN Sha256Memo[data] ELSE Sha256Compute(data)

\* four elements of a {:x?} list, from the k-th on
HexList4(hash, k) ==
    ToHex(hash[k]) \o <<",", " ">> \o ToHex(hash[k + 1]) \o <<",", " ">>
    \o ToHex(hash[k + 2]) \o <<",", " ">> \o ToHex(hash[k + 3])

\* format!("{:x?}", hash) for hash: [u8; 32], "[6a, 9, e6, 67, ...]"
FormatHexDebug(hash) ==
    <<"[">> \o HexList4(hash, 1) \o <<",", " ">> \o HexList4(hash, 5)
    \o <<",", " ">> \o HexList4(hash, 9) \o <<",", " ">> \o HexList4(hash, 13)
    \o <<",", " ">> \o HexList4(hash, 17) \o <<",", " ">> \o HexList4(hash, 21)
    \o <<",", " ">> \o HexList4(hash, 25) \o <<",", " ">> \o HexList4(hash, 29)
    \o <<"]">>

\* the token create_session builds
SessionTokenCompute(username, ip, t) ==
    LET payload == SessionPayload(username, t + SESSION_EXPIRATION, ip)
    IN payload \o <<".">> \o FormatHexDebug(sha256(as_bytes(payload)))

\* SessionTokenCompute on the registry's inputs, computed once
SessionTokenMemo ==
    [k \in Usernames \X IPs \X SessInstants |-> SessionTokenCompute(k[1], k[2], k[3])]

SessionToken(username, ip, t) ==
    IF <<username, ip, t>> \in DOMAIN SessionTokenMemo
    THEN SessionTokenMemo[<<username, ip, t>>]
    ELSE SessionTokenCompute(username, ip, t)

\* create_session that stores the creation instant in place of the expiry
create_session_stores_timestamp(store, username, ip, t) ==
    LET token == SessionToken(username, ip, t)
    IN [store |-> Insert(store, token, <<username, t, ip>>),
        token |-> token]

\* SessionStore::create_session: the table after the call and the token returned
create_session(store, username, ip, t) ==
    LET token == SessionToken(username, ip, t)
    IN [store |-> Insert(store, token, <<username, t + SESSION_EXPIRATION, ip>>),
        token |-> token]

\* verify_session without the comparison of session_ip with ip
verify_session_any_ip(store, token, ip, t) ==
    LET parts == SplitDot(token)
    IN IF Len(parts) # 2 THEN FALSE
       ELSE IF parts[2] # FormatHexDebug(sha256(as_bytes(parts[1]))) THEN FALSE
       ELSE IF token \in DOMAIN store THEN
            (IF store[token][2] < t THEN FALSE ELSE TRUE)
       ELSE FALSE

\* verify_session without the comparison of expiry with the clock
verify_session_no_expiry(store, token, ip, t) ==
    LET parts == SplitDot(token)
    IN IF Len(parts) # 2 THEN FALSE
       ELSE IF parts[2] # FormatHexDebug(sha256(as_bytes(parts[1]))) THEN FALSE
       ELSE IF token \in DOMAIN store THEN
            (IF store[token][3] # ip THEN FALSE ELSE TRUE)
       ELSE FALSE

\* verify_session that trusts the hash and does not look the token up
verify_session_tag_only(store, token, ip, t) ==
    LET parts == SplitDot(token)
    IN IF Len(parts) # 2 THEN FALSE
       ELSE IF parts[2] # FormatHexDebug(sha256(as_bytes(parts[1]))) THEN FALSE
       ELSE TRUE

\* SessionStore::verify_session
verify_session(store, token, ip, t) ==
    LET parts == SplitDot(token)
    IN IF Len(parts) # 2 THEN FALSE
       ELSE IF parts[2] # FormatHexDebug(sha256(as_bytes(parts[1]))) THEN FALSE
       ELSE IF token \in DOMAIN store THEN
            (IF store[token][2] < t THEN FALSE
             ELSE IF store[token][3] # ip THEN FALSE
             ELSE TRUE)
       ELSE FALSE

\* verify_session that removes the entry it finds expired
verify_session_table_sweeps(store, token, ip, t) ==
    IF token \in DOMAIN store /\ store[token][2] < t THEN Remove(store, token) ELSE store

\* SessionStore::verify_session: the table after the call; the guard is taken
\* immutably and the entry only read through get
verify_session_table(store, token, ip, t) == store

\* revoke_session that leaves the entry in the table
revoke_session_keep(store, token) == store

\* revoke_session that empties the table when the token has no entry
revoke_session_clear(store, token) ==
    IF token \in DOMAIN store THEN Remove(store, token) ELSE EmptyMap

\* SessionStore::revoke_session: the table after the call
revoke_session(store, token) == Remove(store, token)

\* create_session calls that are told apart
MaxCreates == 2

CreateSession(u, ip) ==
    LET r    == create_session(sessions, u, ip, now)
        call == [token |-> r.token, user |-> u, ip |-> ip, at |-> now]
    IN /\ Cardinality(issued \cup {call}) <= MaxCreates
       /\ sessions' = r.store
       /\ issued' = issued \cup {call}
       /\ revoked' = revoked \ {r.token}
       /\ sessRes' = [op |-> "create", token |-> r.token, ip |-> ip, ok |-> TRUE,
                      had |-> r.token \in DOMAIN sessions]
       /\ UNCHANGED <<now, everRevoked, authVars, jwtVars, rlVars, extVars>>

VerifySession(token, ip) ==
    /\ sessRes' = [op |-> "verify", token |-> token, ip |-> ip,
                   ok |-> verify_session(sessions, token, ip, now),
                   had |-> token \in DOMAIN sessions]
    /\ sessions' = verify_session_table(sessions, token, ip, now)
    /\ UNCHANGED <<now, issued, revoked, everRevoked, authVars, jwtVars, rlVars, extVars>>

RevokeSession(token) ==
    /\ sessions' = revoke_session(sessions, token)
    /\ revoked' = revoked \cup {token}
    /\ everRevoked' = everRevoked \cup {token}
    /\ sessRes' = [op |-> "revoke", token |-> token, ip |-> None, ok |-> TRUE,
                   had |-> token \in DOMAIN sessions]
    /\ UNCHANGED <<now, issued, authVars, jwtVars, rlVars, extVars>>

TickSess ==
    /\ \E t \in SessInstants : t > now /\ now' = t
    /\ UNCHANGED <<authVars, jwtVars, sessVars, rlVars, extVars>>

\* the tokens clients hold
IssuedTokens == {c.token : c \in issued}

\* the tokens a client can build for itself at instant t: payload and hash are
\* computed without any secret
WellFormedAt(t) == {SessionToken(u, ip, t) : u \in Usernames, ip \in IPs}

\* who logs in from where: one user from both addresses, the other from one
SessionClients ==
    {cl \in Usernames \X IPs : cl[1] = <<"b", "o", "b">> \/ cl[2] = <<":", ":", "1">>}

NextSess ==
    \/ \E cl \in SessionClients : CreateSession(cl[1], cl[2])
    \/ \E token \in IssuedTokens, ip \in IPs : VerifySession(token, ip)
    \/ \E u \in Usernames, ip \in IPs : VerifySession(SessionToken(u, ip, now), ip)
    \/ \E token \in IssuedTokens : RevokeSession(token)
    \/ TickSess

SpecSess == Init /\ [][NextSess]_vars

(***************************************************************************)
(* Claims on the session registry                                          *)
(***************************************************************************)

\* the session of call c is neither revoked nor past its expiry
Unexpired(c) == now <= c.at + SESSION_EXPIRATION

\* the entry of call c, were it in the table, would validate from c.ip now
WouldValidate(c) ==
    verify_session(create_session(sessions, c.user, c.ip, c.at).store, c.token, c.ip, now)

\* C4: for every identity and source IP, validating the token of create_session
\* from the same IP, before the expiry and with no revoke in between, succeeds.
C4_CreateThenValidate ==
    \A c \in issued :
        (c.token \notin revoked /\ Unexpired(c))
            => verify_session(sessions, c.token, c.ip, now)

\* C5: validate_session never succeeds from an IP other than the one given to the
\* create_session call that issued the token.
C5_IpMismatchRejected ==
    \A token \in IssuedTokens, ip \in IPs :
        verify_session(sessions, token, ip, now)
            => \E c \in issued : c.token = token /\ c.ip = ip

\* a live, unexpired session that validates from its own IP was refused from another
C5_Witness ==
    /\ sessRes.op = "verify" /\ ~sessRes.ok
    /\ \E c \in issued :
           /\ c.token = sessRes.token /\ c.ip # sessRes.ip
           /\ verify_session(sessions, c.token, c.ip, now)

\* C6: after revoke_session(token), validate_session(token, ip) fails for every ip,
\* the issuing IP included and before the expiry.
C6_RevokedRejected ==
    \A token \in revoked, ip \in IPs : ~verify_session(sessions, token, ip, now)

\* a revoked token was presented from its issuing IP before its expiry and refused,
\* where the entry, had it stayed, would have validated
C6_Witness ==
    /\ sessRes.op = "verify" /\ ~sessRes.ok /\ sessRes.token \in revoked
    /\ \E c \in issued :
           /\ c.token = sessRes.token /\ c.ip = sessRes.ip
           /\ Unexpired(c) /\ WouldValidate(c)

\* C7: once a token's session has been revoked or has expired, validate_session
\* never succeeds for that token again, whatever calls follow.
C7_RevokedAndExpiredAreTerminal ==
    \A c \in issued, ip \in IPs :
        (c.token \in everRevoked \/ ~Unexpired(c))
            => ~verify_session(sessions, c.token, ip, now)

\* every token create_session can return at the instants of the session registry
WellFormedTokens == UNION {WellFormedAt(t) : t \in SessInstants}

\* C17: every entry's expiry is its creation instant plus SESSION_EXPIRATION, and
\* validate_session never succeeds at an instant after that expiry, from any IP
\* and whether or not the entry is still in the registry.
C17_ExpiryIsCreationPlusLifetime ==
    /\ \A token \in DOMAIN sessions :
           \E c \in issued :
               c.token = token /\ sessions[token][2] = c.at + SESSION_EXPIRATION
    /\ \A c \in issued, ip \in IPs :
           now > c.at + SESSION_EXPIRATION => ~verify_session(sessions, c.token, ip, now)

\* an entry still in the registry was refused from its own IP one second after an
\* expiry at which it would have validated
C17_Witness ==
    /\ sessRes.op = "verify" /\ ~sessRes.ok /\ sessRes.had
    /\ \E c \in issued :
           /\ c.token = sessRes.token /\ c.ip = sessRes.ip
           /\ now = c.at + SESSION_EXPIRATION + 1
           /\ verify_session(sessions, c.token, c.ip, c.at + SESSION_EXPIRATION)

\* C18: validate_session succeeds only for a token that is a key of the registry,
\* returned by an earlier create_session and not revoked since; a well-formed
\* token with a correct hash that was never registered is rejected.
C18_OnlyRegisteredTokens ==
    \A token \in WellFormedTokens \cup IssuedTokens, ip \in IPs :
        verify_session(sessions, token, ip, now)
            => /\ token \in DOMAIN sessions
               /\ token \in IssuedTokens
               /\ token \notin revoked

\* a token of two parts with the right hash, never returned by create_session, was
\* presented from the IP it names while the registry held a session, and refused
C18_Witness ==
    /\ sessRes.op = "verify" /\ ~sessRes.ok
    /\ sessRes.token \notin IssuedTokens
    /\ sessions # EmptyMap
    /\ LET parts == SplitDot(sessRes.token)
       IN /\ Len(parts) = 2
          /\ parts[2] = FormatHexDebug(sha256(as_bytes(parts[1])))
    /\ \E u \in Usernames : sessRes.token = SessionToken(u, sessRes.ip, now)

\* C19: revoking a token that has no entry leaves the registry as it is, and
\* revoking a token twice leaves what revoking it once leaves.
C19_RevokeIdempotent ==
    \A token \in WellFormedTokens \cup IssuedTokens :
        LET once == revoke_session(sessions, token)
        IN /\ revoke_session(once, token) = once
           /\ token \notin DOMAIN sessions => once = sessions

\* a revoke call on a token without an entry, made while the registry held another
C19_Witness ==
    /\ sessRes.op = "revoke" /\ ~sessRes.had
    /\ sessions # EmptyMap

SpecRL == Init /\ [][NextRL]_vars

(***************************************************************************)
(* Claims on the rate limiter                                              *)
(***************************************************************************)

\* C8: of 105 consecutive allow(id) calls made within one window on a fresh
\* identifier, exactly the first 50 return true and the remaining 55 false.
C8_FiftyThenDenied ==
    rlRes.n \in 1..MAIN_REQUESTS => (rlRes.ok <=> rlRes.n <= BURST_THRESHOLD)

\* the 105th call of such a run, made a full window after the first, was answered
C8_Witness ==
    /\ rlRes.n = MAIN_REQUESTS /\ ~rlRes.ok
    /\ now = rlHist[rlRes.id].first + WINDOW

\* C9: once allow(id) has blocked id at instant b, every allow(id) call made before
\* b + BLOCK_DURATION returns false, however many windows have passed.
C9_BlockedForBlockDuration ==
    rlRes.sinceBlock \in 0..(BLOCK_DURATION - 1) => ~rlRes.ok

\* a call more than one window after the block, and before its end, was denied
C9_Witness ==
    /\ rlRes.sinceBlock > WINDOW /\ rlRes.sinceBlock < BLOCK_DURATION
    /\ ~rlRes.ok

\* C10: once BLOCK_DURATION has passed since the block, allow(id) is decided by the
\* window counter alone: the first BURST_THRESHOLD calls of the first window
\* starting at or after b + BLOCK_DURATION all return true.
C10_AllowedAfterBlock ==
    rlRes.pn \in 1..BURST_THRESHOLD => rlRes.ok

\* C20: in every reachable state of the table, an entry that is not blocked has a
\* count of at most MAX_REQUESTS_PER_MINUTE.
C20_UnblockedCountWithinMax ==
    \A id \in DOMAIN clients :
        ~clients[id][3] => clients[id][1] <= MAX_REQUESTS_PER_MINUTE

\* the call that brought an unblocked entry's count to the maximum
C20_Witness ==
    /\ rlRes.id \in DOMAIN clients
    /\ clients[rlRes.id][1] = MAX_REQUESTS_PER_MINUTE
    /\ ~clients[rlRes.id][3]
    /\ ~rlRes.ok

\* C33: verify_session never changes the table, whatever it returns: the entries
\* are the same before and after the call, and an expired entry stays in place.
\* The step of a call is the one that leaves the clock alone and a verify result
\* behind.
C33_VerifyLeavesTable ==
    [][(sessRes'.op = "verify" /\ now' = now) => sessions' = sessions]_vars

\* a call that found its entry expired and left it in the table
C33_Witness ==
    /\ sessRes.op = "verify" /\ ~sessRes.ok /\ sessRes.had
    /\ sessRes.token \in DOMAIN sessions
    /\ sessions[sessRes.token][2] < now
    /\ sessions[sessRes.token][3] = sessRes.ip

\* C34: every entry of the table stores the identity, the expiry and the IP that
\* the payload of its key embeds: the key is the payload formatted from the
\* stored triple, followed by "." and the hash.
C34_EntryMatchesPayload ==
    \A token \in DOMAIN sessions :
        LET e       == sessions[token]
            payload == SessionPayload(e[1], e[2], e[3])
        IN /\ Len(token) > Len(payload)
           /\ SubSeq(token, 1, Len(payload)) = payload
           /\ SubSeq(token, Len(payload) + 1, Len(token))
                  = <<".">> \o FormatHexDebug(sha256(as_bytes(payload)))

\* two entries, one of them created after the start for a dotted address
C34_Witness ==
    /\ Cardinality(DOMAIN sessions) = 2
    /\ \E token \in DOMAIN sessions :
           /\ sessions[token][2] = (2 * SESSION_EXPIRATION)
           /\ sessions[token][3] = <<"1", "0", ".", "0", ".", "0", ".", "5">>

\* C35: each create_session call establishes a session of its own: revoking the
\* token of one call leaves verify_session for the token of any other call with
\* the outcome it had, also when the two calls were made for the same identity
\* and IP in the same second.
C35_SessionsIndependent ==
    [][(sessRes'.op = "revoke" /\ now' = now)
           => /\ \A c \in issued :
                     c.token # sessRes'.token
                         => verify_session(sessions', c.token, c.ip, now)
                                = verify_session(sessions, c.token, c.ip, now)
              /\ (/\ sessRes.op = "create" /\ sessRes.had
                  /\ sessRes.token = sessRes'.token)
                     => verify_session(sessions', sessRes.token, sessRes.ip, now)
                            = verify_session(sessions, sessRes.token, sessRes.ip, now)]_vars

\* the table as it was when the last allow_request call was made
TableBefore ==
    IF rlRes.before = None THEN Remove(clients, rlRes.id)
    ELSE [clients EXCEPT ![rlRes.id] = rlRes.before]

\* C21: a call whose incremented count is above BURST_THRESHOLD and not above
\* MAX_REQUESTS_PER_MINUTE returns false and leaves the blocked flag and
\* last_request as they were; the flag is only set by a call whose incremented
\* count is above MAX_REQUESTS_PER_MINUTE.
C21_BurstDeniedWithoutBlock ==
    rlRes.before # None
        => LET entry == clients[rlRes.id]
           IN /\ (/\ entry[1] = rlRes.before[1] + 1
                  /\ entry[1] > BURST_THRESHOLD
                  /\ entry[1] <= MAX_REQUESTS_PER_MINUTE)
                     => /\ ~rlRes.ok
                        /\ entry[3] = rlRes.before[3]
                        /\ entry[2] = rlRes.before[2]
              /\ (entry[3] /\ ~rlRes.before[3]) => entry[1] > MAX_REQUESTS_PER_MINUTE

\* the call that took the count to the maximum, made later than the window start,
\* was denied and left the entry unblocked with the window start it had
C21_Witness ==
    /\ rlRes.before # None
    /\ clients[rlRes.id] = <<MAX_REQUESTS_PER_MINUTE, rlRes.before[2], FALSE>>
    /\ rlRes.before[1] = MAX_REQUESTS_PER_MINUTE - 1
    /\ rlRes.at > rlRes.before[2]
    /\ ~rlRes.ok

\* C22: a call for an identifier never blocked, made when more than WINDOW has
\* passed since the window start, resets the counter and starts a new window at
\* the call: it counts as request 1 and returns true, also after burst denial.
C22_WindowReset ==
    (/\ rlRes.before # None
     /\ ~rlRes.before[3]
     /\ rlRes.at - rlRes.before[2] > WINDOW)
        => /\ rlRes.ok
           /\ clients[rlRes.id] = <<1, rlRes.at, FALSE>>

\* such a call after a window that ended in burst denial
C22_Witness ==
    /\ rlRes.before # None
    /\ ~rlRes.before[3]
    /\ rlRes.before[1] > BURST_THRESHOLD
    /\ rlRes.at - rlRes.before[2] > WINDOW
    /\ rlRes.ok
    /\ clients[rlRes.id] = <<1, rlRes.at, FALSE>>

C37_BlockedDenialChangesNothing ==
    (/\ rlRes.before # None
     /\ rlRes.before[3]
     /\ rlRes.at - rlRes.before[2] < BLOCK_DURATION)
        => /\ ~rlRes.ok
           /\ clients[rlRes.id] = rlRes.before

\* a call denied in the last second of a block, the entry still naming the
\* instant at which the block began
C37_Witness ==
    /\ rlRes.before # None
    /\ rlRes.before[3]
    /\ rlRes.at = rlRes.before[2] + BLOCK_DURATION - 1
    /\ ~rlRes.ok
    /\ clients[rlRes.id] = rlRes.before

\* C38: allow_request(a) creates or changes the entry of a alone: the entry of
\* any other identifier b, and the outcome a call for b would have, are the same
\* before and after it.  The step of a call is the one that leaves the clock
\* alone.
C38_EntriesIndependent ==
    [][now' = now
           => \A b \in Identifiers \ {rlRes'.id} :
                  /\ (b \in DOMAIN clients') = (b \in DOMAIN clients)
                  /\ b \in DOMAIN clients => clients'[b] = clients[b]
                  /\ allow_request(clients', b, now).ok
                         = allow_request(clients, b, now).ok]_vars

\* one identifier is blocked while the other has an entry still under the burst
\* threshold
C38_Witness ==
    /\ rlRes.id \in DOMAIN clients
    /\ clients[rlRes.id][3]
    /\ \E b \in DOMAIN clients :
           /\ b # rlRes.id
           /\ ~clients[b][3]
           /\ clients[b][1] \in 1..BURST_THRESHOLD

(***************************************************************************)
(* Claims on the access evaluator                                          *)
(***************************************************************************)

\* C26: has_permission(role, action) is true for every action when the role's
\* permissions contain the token "ALL".
C26_AllGrantsEveryAction ==
    (/\ permRes.called
     /\ permRes.role \in DOMAIN roles
     /\ \E i \in DOMAIN roles[permRes.role].permissions :
            roles[permRes.role].permissions[i] = "ALL")
        => permRes.ok

\* admin was asked about an action that is in no permission list, and permitted
C26_Witness ==
    /\ permRes.called /\ permRes.role = "admin" /\ permRes.action = "DELETE"
    /\ permRes.ok

\* C27: has_permission returns false for every role name that is not in the table,
\* for every action, "ALL" included.
C27_UnknownRoleDenied ==
    (permRes.called /\ permRes.role \notin DOMAIN roles) => ~permRes.ok

\* a role name that is not in the table was asked about READ, and refused
C27_Witness ==
    /\ permRes.called /\ permRes.role = "root" /\ permRes.action = "READ"
    /\ ~permRes.ok

\* C28: for a known role without "ALL", has_permission is true exactly when the
\* action is one of the role's tokens, letter for letter.
C28_ExactTokenMatch ==
    (/\ permRes.called
     /\ permRes.role \in DOMAIN roles
     /\ \A i \in DOMAIN roles[permRes.role].permissions :
            roles[permRes.role].permissions[i] # "ALL")
        => (permRes.ok <=>
               permRes.action \in {roles[permRes.role].permissions[i] :
                                      i \in DOMAIN roles[permRes.role].permissions})

\* guest, holding READ alone, was asked about WRITE and refused
C28_Witness ==
    /\ permRes.called /\ permRes.role = "guest" /\ permRes.action = "WRITE"
    /\ ~permRes.ok

(***************************************************************************)
(* Claims on concurrent callers                                            *)
(***************************************************************************)

\* C24: with workers calling allow_request concurrently on one identifier no
\* increment of the count is lost, and within one window no more than
\* BURST_THRESHOLD calls return true, under every interleaving.
C24_AllowRequestAtomic ==
    /\ rcTrues <= BURST_THRESHOLD
    /\ rcIdentifier \in DOMAIN clients => clients[rcIdentifier][1] = rcIncr
    /\ \A v, w \in Workers :
           (v # w /\ rcPc[v] \notin {"idle", "lock"}) => rcPc[w] \in {"idle", "lock"}

\* BURST_THRESHOLD calls have returned true, a further call was denied, and another
\* worker waits for the mutex while one is between the load and the store
C24_Witness ==
    /\ rcTrues = BURST_THRESHOLD
    /\ rcIncr > BURST_THRESHOLD
    /\ \E v, w \in Workers : rcPc[v] = "store" /\ rcPc[w] = "lock"

\* C25: with workers calling authenticate_user concurrently on one identity, every
\* failed attempt increments the counter once, no more than MAX_FAILED_ATTEMPTS
\* wrong-password calls reach the password verification between two successes,
\* and no call that starts after the lock flag is set succeeds.
C25_AuthenticateAtomic ==
    /\ auVerifs <= MAX_FAILED_ATTEMPTS
    /\ \A u \in DOMAIN users : users[u].failed_attempts = auIncr
    /\ ~auLate
    /\ \A v, w \in Workers :
           (v # w /\ auPc[v] \notin {"idle", "lock"}) => auPc[w] \in {"idle", "lock"}

\* the identity is locked by MAX_FAILED_ATTEMPTS stored increments, and a call with
\* the right password that started after the flag was set waits for the mutex
\* while another worker is inside authenticate_user
C25_Witness ==
    /\ auVerifs = MAX_FAILED_ATTEMPTS
    /\ auIncr = MAX_FAILED_ATTEMPTS
    /\ \E v, w \in Workers :
           /\ auPc[v] = "lookup"
           /\ auPc[w] = "lock"
           /\ auCall[w].late
           /\ auCall[w].user \in DOMAIN users
           /\ verify_encoded(users[auCall[w].user].password_hash, auCall[w].password)

(***************************************************************************)
(* Claims on the wire format of the tokens                                 *)
(***************************************************************************)

\* C29: every token returned by create_session, for every identity and every
\* source IP, splits on "." into exactly two parts, the payload and the MAC.
C29_SessionTokenTwoParts ==
    \A c \in issued : Len(SplitDot(c.token)) = 2

\* C30: every token produced by generate_jwt contains exactly one ".", which
\* separates the encoded payload from the encoded MAC.
C30_BearerTokenTwoParts ==
    jwt # None => Len(SplitDot(jwt.token)) = 2

(***************************************************************************)
(* Claims on locking                                                       *)
(***************************************************************************)

====
